---------------------------- MODULE Spec2Model ----------------------------
(***************************************************************************)
(* Model of the demo-revent map page: the Signals status engine            *)
(* (src/assets/js/app.js), the hover / selection / card interaction of     *)
(* MapModule (src/unnamed/part_000) with App (src/assets/js/app.js), the   *)
(* card placement, and what App.init and the 60 s intervals render.        *)
(*                                                                         *)
(* Texts are sequences of one-character strings, so that parsing a         *)
(* schedule text is computed the way the code computes it.                 *)
(***************************************************************************)
EXTENDS Integers, Sequences, FiniteSets, TLC

VARIABLES
    \* ---- Signals: the inputs of one getOpenStatus call and its outcome
    hours,            \* merchant.hours: day key -> schedule text
    authored,         \* what the author of the text meant: a sequence of ranges, or a tag
    dayOfWeek,        \* now.getDay()
    currentMinutes,   \* now.getHours() * 60 + now.getMinutes()
    result,           \* outcome of getOpenStatus: a StatusResult, Threw or NoResult
    previous,         \* outcome of the call before the last one, or NoResult
    \* ---- MapModule
    markers,          \* ids that own a marker (the keys of MapModule.markers)
    activeMarkerId,
    markerCls,        \* id -> interaction classes of the marker's DOM element
    cardVisible,      \* #merchant-card carries 'visible' (TRUE) or 'hidden'
    cardMerchant,     \* merchant the card was last filled for; 0 before any showCard
    timers,           \* pending setTimeout callbacks, oldest first; a timer is
                      \* held while hoverTimeout / cardHideTimeout names it
    \* ---- App
    activeMerchantId,
    itemCls,          \* id -> interaction classes of the .merchant-item element
    modalOpen,        \* #modal-overlay does not carry 'hidden'
    \* ---- MapModule.positionCard: the inputs of one call and its outcome
    anchor,           \* (x, y): the marker's container point
    mapRect,          \* #map-container's getBoundingClientRect(): left, top, width
    offsetHeight,     \* card.offsetHeight, 0 while the card was never laid out
    cardStyle,        \* card.style.left / top in px, or NoStyle
    \* ---- the loaded data and what the page derived from it
    allMerchants,     \* App's flat merchant list; a merchant's id is its place
    openCount,        \* the number in #open-count, or NoCount before App.init
    markerEntry,      \* MapModule.markers[id]: status and popularity at creation
    markerStatusCls,  \* id -> status and pulse classes of the marker's DOM element
    itemStatus,       \* id -> status shown in the list item's .merchant-status
    cardStatus,       \* status shown in #card-status, as the last showCard left it
    \* ---- the user
    pointer           \* "present", or "gone" once the user makes no further event

statusVars == <<hours, authored, dayOfWeek, currentMinutes, result, previous>>
mapVars    == <<markers, activeMarkerId, markerCls, cardVisible, cardMerchant, timers>>
appVars    == <<activeMerchantId, itemCls, modalOpen>>
placeVars  == <<anchor, mapRect, offsetHeight, cardStyle>>
dataVars   == <<allMerchants, openCount, markerEntry, markerStatusCls, itemStatus,
                cardStatus>>
envVars    == <<pointer>>
vars       == <<statusVars, mapVars, appVars, placeVars, dataVars, envVars>>

---------------------------------------------------------------------------
(* Text helpers: String.prototype.split / trim, Number, String, padStart   *)

DigitChars == <<"0", "1", "2", "3", "4", "5", "6", "7", "8", "9">>

IsDigit(c) == \E i \in 1..10 : DigitChars[i] = c

DigitVal(c) == (CHOOSE i \in 1..10 : DigitChars[i] = c) - 1

\* The value `undefined` (a missing key, a missing destructured element).
Undefined == <<"undefined">>

\* NaN, as a number below every minute count; see IsNaN for its arithmetic.
NaN == -1

IsNaN(x) == x = NaN

\* Index of the first occurrence of sep in s at or after i, or 0.
RECURSIVE IndexFrom(_, _, _)
IndexFrom(s, sep, i) ==
    IF i > Len(s) THEN 0
    ELSE IF s[i] = sep THEN i
    ELSE IndexFrom(s, sep, i + 1)

\* s.split(sep) for a one-character separator: always at least one piece.
RECURSIVE Split(_, _)
Split(s, sep) ==
    LET k == IndexFrom(s, sep, 1) IN
    IF k = 0 THEN << s >>
    ELSE << SubSeq(s, 1, k - 1) >> \o Split(SubSeq(s, k + 1, Len(s)), sep)

\* Array destructuring [a, b] = pieces: a missing element is undefined.
Elem(pieces, i) == IF i <= Len(pieces) THEN pieces[i] ELSE Undefined

RECURSIVE TrimLeft(_)
TrimLeft(s) ==
    IF s # << >> /\ Head(s) = " " THEN TrimLeft(Tail(s)) ELSE s

RECURSIVE TrimRight(_)
TrimRight(s) ==
    IF s # << >> /\ s[Len(s)] = " " THEN TrimRight(SubSeq(s, 1, Len(s) - 1)) ELSE s

Trim(s) == TrimRight(TrimLeft(s))

RECURSIVE DecimalValue(_)
DecimalValue(s) ==
    IF s = << >> THEN 0
    ELSE 10 * DecimalValue(SubSeq(s, 1, Len(s) - 1)) + DigitVal(s[Len(s)])

\* Number(s) on texts of decimal digits, blanks and letters (no sign, point,
\* exponent or radix prefix occurs in the texts of this model): blanks around
\* the digits are skipped, the empty text is 0, anything else is NaN.
Number(s) ==
    LET t == Trim(s) IN
    IF t = << >> THEN 0
    ELSE IF \A i \in 1..Len(t) : IsDigit(t[i]) THEN DecimalValue(t)
    ELSE NaN

\* String(n) for n >= 0.
RECURSIVE NumStr(_)
NumStr(n) ==
    IF n < 10 THEN << DigitChars[n + 1] >>
    ELSE NumStr(n \div 10) \o << DigitChars[(n % 10) + 1] >>

\* s.padStart(2, '0')
PadStart2(s) == IF Len(s) >= 2 THEN s ELSE << "0" >> \o s

---------------------------------------------------------------------------
(* Signals                                                                 *)

DAY_KEYS == <<"sunday", "monday", "tuesday", "wednesday", "thursday", "friday", "saturday">>

ClosedText == <<"c", "l", "o", "s", "e", "d">>

\* The outcome of a call that ended in an uncaught TypeError.
Threw == [status |-> "TypeError", prefix |-> "", value |-> << >>, suffix |-> ""]

\* No call made yet.
NoResult == [status |-> "none", prefix |-> "", value |-> << >>, suffix |-> ""]

\* A label is prefix + value + suffix, the value being the interpolated text.
StatusResult(st, pre, val, suf) ==
    [status |-> st, prefix |-> pre, value |-> val, suffix |-> suf]

Tancat == StatusResult("closed", "Tancat", << >>, "")

\* timeToMinutes reading the hour as hundreds: h * 100 + m.
timeToMinutesCentesimal(timeStr) ==
    LET parts == Split(timeStr, ":")
        h == Number(parts[1])
        m == IF Len(parts) >= 2 THEN Number(parts[2]) ELSE NaN
    IN IF IsNaN(h) \/ IsNaN(m) THEN NaN ELSE h * 100 + m

\* timeToMinutes: h * 60 + m over [h, m] = timeStr.split(':').map(Number);
\* a missing m is undefined and the sum NaN.  timeStr must be a text.
timeToMinutes(timeStr) ==
    LET parts == Split(timeStr, ":")
        h == Number(parts[1])
        m == IF Len(parts) >= 2 THEN Number(parts[2]) ELSE NaN
    IN IF IsNaN(h) \/ IsNaN(m) THEN NaN ELSE h * 60 + m

\* One range of parseSchedule's map.  When closeStr is undefined, timeToMinutes
\* calls undefined.split and the TypeError leaves the map: threw is TRUE.
ParseRange(range) ==
    LET pieces == Split(Trim(range), "-")
        openStr == Elem(pieces, 1)
        closeStr == Elem(pieces, 2)
    IN IF closeStr = Undefined
       THEN [threw |-> TRUE, open |-> NaN, close |-> NaN]
       ELSE [threw |-> FALSE, open |-> timeToMinutes(openStr),
             close |-> timeToMinutes(closeStr)]

\* parseSchedule: kind "null" for a missing / empty / 'closed' text, "throw"
\* when a range throws, else "ranges" with the ranges in listed order.
parseSchedule(scheduleStr) ==
    IF scheduleStr = Undefined \/ scheduleStr = << >> \/ scheduleStr = ClosedText
    THEN [kind |-> "null", ranges |-> << >>]
    ELSE LET pieces == Split(scheduleStr, ",")
             parsed == [i \in 1..Len(pieces) |-> ParseRange(pieces[i])]
         IN IF \E i \in 1..Len(pieces) : parsed[i].threw
            THEN [kind |-> "throw", ranges |-> << >>]
            ELSE [kind |-> "ranges", ranges |-> parsed]

getDaySchedule(hrs, day) ==
    LET key == DAY_KEYS[day + 1] IN
    parseSchedule(IF key \in DOMAIN hrs THEN hrs[key] ELSE Undefined)

\* InRange with the closing minute included: currentMinutes <= range.close.
InRangeInclusive(t, range) ==
    /\ ~IsNaN(range.open) /\ ~IsNaN(range.close)
    /\ t >= range.open /\ t <= range.close

\* InRange that takes a zero-length range as open at its one minute.
InRangeZeroLength(t, range) ==
    /\ ~IsNaN(range.open) /\ ~IsNaN(range.close)
    /\ \/ t >= range.open /\ t < range.close
       \/ range.open = range.close /\ t = range.open

\* currentMinutes >= range.open && currentMinutes < range.close
InRange(t, range) ==
    /\ ~IsNaN(range.open) /\ ~IsNaN(range.close)
    /\ t >= range.open /\ t < range.close

\* OpenResult with the threshold excluded: minutesUntilClose < 30.
OpenResultStrict(t, range) ==
    LET minutesUntilClose == range.close - t IN
    IF minutesUntilClose < 30
    THEN StatusResult("closing-soon", "Tanca en ", NumStr(minutesUntilClose), " min")
    ELSE StatusResult("open", "Obert · Tanca a les ",
                      NumStr(range.close \div 60) \o << ":" >>
                          \o PadStart2(NumStr(range.close % 60)), "h")

\* The first loop's return value for a range that contains t.
OpenResult(t, range) ==
    LET minutesUntilClose == range.close - t IN
    IF minutesUntilClose <= 30
    THEN StatusResult("closing-soon", "Tanca en ", NumStr(minutesUntilClose), " min")
    ELSE StatusResult("open", "Obert · Tanca a les ",
                      NumStr(range.close \div 60) \o << ":" >>
                          \o PadStart2(NumStr(range.close % 60)), "h")

\* OpensSoon with the opening minute included: minutesUntilOpen >= 0.
OpensSoonInclusive(t, range) ==
    /\ ~IsNaN(range.open)
    /\ range.open - t >= 0 /\ range.open - t <= 30

\* minutesUntilOpen > 0 && minutesUntilOpen <= 30
OpensSoon(t, range) ==
    /\ ~IsNaN(range.open)
    /\ range.open - t > 0 /\ range.open - t <= 30

\* FirstOpen looking at the first listed range only.
FirstOpenOnlyFirst(ranges, t, i) ==
    IF ranges # << >> /\ InRange(t, ranges[1]) THEN 1 ELSE 0

\* Index of the first range from i on that satisfies the loop's test, or 0.
RECURSIVE FirstOpen(_, _, _)
FirstOpen(ranges, t, i) ==
    IF i > Len(ranges) THEN 0
    ELSE IF InRange(t, ranges[i]) THEN i
    ELSE FirstOpen(ranges, t, i + 1)

RECURSIVE FirstOpensSoon(_, _, _)
FirstOpensSoon(ranges, t, i) ==
    IF i > Len(ranges) THEN 0
    ELSE IF OpensSoon(t, ranges[i]) THEN i
    ELSE FirstOpensSoon(ranges, t, i + 1)

\* getOpenStatus(merchant, now), with now given as (day, t).
getOpenStatus(hrs, day, t) ==
    LET sched == getDaySchedule(hrs, day)
        ranges == sched.ranges
    IN IF sched.kind = "throw" THEN Threw
       ELSE IF sched.kind = "null" THEN Tancat
       ELSE LET i == FirstOpen(ranges, t, 1)
                j == FirstOpensSoon(ranges, t, 1)
            IN IF i # 0 THEN OpenResult(t, ranges[i])
               ELSE IF j # 0
               THEN StatusResult("opening-soon", "Obre en ",
                                 NumStr(ranges[j].open - t), " min")
               ELSE Tancat

\* getPopularity with inclusive thresholds: visits >= 40, visits >= 20.
getPopularityInclusive(visits) ==
    IF visits >= 40 THEN [level |-> "very-popular", label |-> "Molt popular"]
    ELSE IF visits >= 20 THEN [level |-> "popular", label |-> "Popular"]
    ELSE [level |-> "normal", label |-> ""]

\* getPopularity(visits); the icon field is the empty text at every level.
getPopularity(visits) ==
    IF visits > 40 THEN [level |-> "very-popular", label |-> "Molt popular"]
    ELSE IF visits > 20 THEN [level |-> "popular", label |-> "Popular"]
    ELSE [level |-> "normal", label |-> ""]

\* The template `marker-${status.status}`.
StatusClass(st) ==
    CASE st = "open" -> "marker-open"
      [] st = "closing-soon" -> "marker-closing-soon"
      [] st = "opening-soon" -> "marker-opening-soon"
      [] st = "closed" -> "marker-closed"

\* The classes pushed for a popularity level.
PulseClassesOf(level) ==
    IF level = "very-popular" THEN << "pulse-intense", "glow" >>
    ELSE IF level = "popular" THEN << "pulse-fast" >>
    ELSE << "pulse" >>

\* getMarkerClasses' return value, given its status and popularity, with the
\* pulse classes pushed whatever the status.
MarkerClassesAlwaysPulse(status, popularity) ==
    [classes |-> << StatusClass(status.status) >> \o PulseClassesOf(popularity.level),
     status |-> status, popularity |-> popularity]

\* getMarkerClasses' return value, given its status and popularity: classes is
\* the array in push order.
MarkerClasses(status, popularity) ==
    [classes |-> << StatusClass(status.status) >>
                     \o IF status.status \in {"open", "closing-soon", "opening-soon"}
                        THEN PulseClassesOf(popularity.level)
                        ELSE << >>,
     status |-> status, popularity |-> popularity]

\* getMarkerClasses that pulses whatever the status.
getMarkerClassesAlwaysPulse(merchant, day, t) ==
    MarkerClassesAlwaysPulse(getOpenStatus(merchant.hours, day, t),
                             getPopularity(merchant.visits))

\* getMarkerClasses(merchant, now).  The merchants it is applied to have day
\* texts getOpenStatus does not throw on.
getMarkerClasses(merchant, day, t) ==
    MarkerClasses(getOpenStatus(merchant.hours, day, t), getPopularity(merchant.visits))

\* merchants.filter(m => test(getOpenStatus(m, now))), the test being that the
\* status is one of the statuses in wanted.
RECURSIVE FilterByStatus(_, _, _, _)
FilterByStatus(merchants, day, t, wanted) ==
    IF merchants = << >> THEN << >>
    ELSE LET s == getOpenStatus(Head(merchants).hours, day, t)
             rest == FilterByStatus(Tail(merchants), day, t, wanted)
         IN IF s.status \in wanted THEN << Head(merchants) >> \o rest ELSE rest

\* countOpen that also counts 'opening-soon'.
countOpenWithOpeningSoon(merchants, day, t) ==
    Len(FilterByStatus(merchants, day, t, {"open", "closing-soon", "opening-soon"}))

\* countOpen(merchants, now): merchants.filter(...).length with the test
\* s.status === 'open' || s.status === 'closing-soon'.
countOpen(merchants, day, t) ==
    Len(FilterByStatus(merchants, day, t, {"open", "closing-soon"}))

---------------------------------------------------------------------------
(* Inputs of the status engine                                             *)

\* Most ranges a generated day lists.
MaxRanges == 2

DayMinutes == 0..1439

\* Range ends the generated days use: 00:00, 09:00, 09:20, 13:00.  09:00-09:20
\* is shorter than the 30 minute threshold, 00:00-09:20 closes at a one-digit
\* hour; pairs with open >= close are the zero-length and the
\* midnight-crossing ranges.
Endpoints == {0, 540, 560, 780}

AuthoredRanges == [open : Endpoints, close : Endpoints]

\* The day "09:00-13:00,17:00-20:00".
LunchAndDinner == << [open |-> 540, close |-> 780], [open |-> 1020, close |-> 1200] >>

LunchAndDinnerText ==
    << "0", "9", ":", "0", "0", "-", "1", "3", ":", "0", "0", ",",
       "1", "7", ":", "0", "0", "-", "2", "0", ":", "0", "0" >>

RECURSIVE SeqsUpTo(_, _)
SeqsUpTo(S, n) ==
    IF n = 0 THEN { << >> }
    ELSE LET shorter == SeqsUpTo(S, n - 1) IN
         shorter \cup { Append(q, x) : q \in { r \in shorter : Len(r) = n - 1 }, x \in S }

AuthoredDays == (SeqsUpTo(AuthoredRanges, MaxRanges) \ { << >> }) \cup { LunchAndDinner }

\* The authoring convention "HH:MM-HH:MM,HH:MM-HH:MM".
FmtTime(m) == PadStart2(NumStr(m \div 60)) \o << ":" >> \o PadStart2(NumStr(m % 60))

FmtRange(r) == FmtTime(r.open) \o << "-" >> \o FmtTime(r.close)

RECURSIVE FmtDay(_)
FmtDay(rs) ==
    IF Len(rs) = 1 THEN FmtRange(rs[1])
    ELSE FmtRange(rs[1]) \o << "," >> \o FmtDay(Tail(rs))

\* The day "13:00-20:00".
AfternoonText == FmtRange([open |-> 780, close |-> 1200])

EveningText == FmtRange([open |-> 1020, close |-> 1200])

\* Malformed day texts, by what is wrong with them.
NoSeparator     == << "0", "9", ":", "0", "0" >>
NoSeparatorLast == FmtRange([open |-> 540, close |-> 780]) \o << ",", "1", "7", ":", "0", "0" >>
NonNumericClose == << "0", "9", ":", "0", "0", "-", "1", "x", ":", "0", "0" >>
NonNumericOpen  == << "x", "x", ":", "0", "0", "-", "1", "3", ":", "0", "0" >>
NoColon         == << "0", "9", "0", "0", "-", "1", "3", "0", "0" >>
HourOutOfRange  == << "0", "9", ":", "0", "0", "-", "2", "5", ":", "0", "0" >>
MinuteOutOfRange == << "0", "9", ":", "0", "0", "-", "1", "2", ":", "7", "5" >>

MalformedTexts == { NoSeparator, NoSeparatorLast, NonNumericClose, NonNumericOpen,
                    NoColon, HourOutOfRange, MinuteOutOfRange }

Monday == 1
Tuesday == 2

\* hours with Monday's text only: on Tuesday the day key is missing.
HoursOf(text) == [k \in {"monday"} |-> text]

Author(kind, rs) == [kind |-> kind, ranges |-> rs]

\* Minutes within 31 of a range end of the generated days, and the scenario's.
NearMinutes ==
    { m \in DayMinutes :
        \/ \E e \in Endpoints \cup {1020, 1200}, d \in {1, 29, 30, 31} :
              m = e \/ m = e + d \/ m = e - d
        \/ m \in {0, 749, 765, 770, 1000, 1260, 1439} }

SampleMinutes == { 0, 539, 540, 600, 765, 794, 795, 1439 }

StatusInit ==
    /\ result = NoResult
    /\ previous = NoResult
    /\ \/ \E rs \in AuthoredDays :
            /\ authored = Author("ranges", rs)
            /\ hours = HoursOf(IF rs = LunchAndDinner THEN LunchAndDinnerText
                               ELSE FmtDay(rs))
            /\ dayOfWeek = Monday
            /\ currentMinutes \in IF Len(rs) = 1 THEN DayMinutes ELSE NearMinutes
       \/ /\ authored = Author("closed", << >>)
          /\ hours = HoursOf(ClosedText)
          /\ dayOfWeek = Monday
          /\ currentMinutes \in SampleMinutes
       \/ /\ authored = Author("empty", << >>)
          /\ hours = HoursOf(<< >>)
          /\ dayOfWeek = Monday
          /\ currentMinutes \in SampleMinutes
       \/ /\ authored = Author("missing-key", << >>)
          /\ hours = HoursOf(LunchAndDinnerText)
          /\ dayOfWeek = Tuesday
          /\ currentMinutes \in SampleMinutes
       \/ \E text \in MalformedTexts :
            /\ authored = Author("malformed", << >>)
            /\ hours = HoursOf(text)
            /\ dayOfWeek = Monday
            /\ currentMinutes \in SampleMinutes

\* A getOpenStatus that uses up the schedule it was given.
ClassifyConsuming ==
    /\ result = NoResult
    /\ result' = getOpenStatus(hours, dayOfWeek, currentMinutes)
    /\ hours' = HoursOf(ClosedText)
    /\ UNCHANGED <<authored, dayOfWeek, currentMinutes, previous>>

\* One render pass asks for the status of the merchant at the current time.
\* The call assigns nothing but its return value.
Classify ==
    /\ result = NoResult
    /\ result' = getOpenStatus(hours, dayOfWeek, currentMinutes)
    /\ UNCHANGED <<hours, authored, dayOfWeek, currentMinutes, previous>>

\* A second render pass asks again, for the same merchant at the same time.
Reclassify ==
    /\ result # NoResult
    /\ previous = NoResult
    /\ previous' = result
    /\ result' = getOpenStatus(hours, dayOfWeek, currentMinutes)
    /\ UNCHANGED <<hours, authored, dayOfWeek, currentMinutes>>

---------------------------------------------------------------------------
(* MapModule and App: hover, selection, card                               *)

\* Merchants of the loaded data, with ids 1..NumMerchants.
NumMerchants == 3

\* Most setTimeout callbacks pending at once.
MaxTimers == 2

Merchants == 1..NumMerchants

\* null, for an id or a timer handle.
Null == 0

MarkerMarks == {"marker-active", "marker-out-of-focus", "marker-hover"}
ItemMarks   == {"active", "out-of-focus", "hover-from-map"}

\* A timer handle is what clearTimeout can do with it: it names one pending
\* timer or none.  The model keeps, on each pending timer, whether the module
\* variable of its class still holds its handle; hoverTimeout only ever holds
\* show timers and cardHideTimeout hide timers.
ShowTimer(id) == [kind |-> "show", m |-> id, held |-> TRUE]
HideTimer     == [kind |-> "hide", m |-> Null, held |-> TRUE]

\* The pending timer a module variable names: its place in timers, or Null
\* when the variable is null or its timer has fired or was cleared.
HeldTimer(ts, kind) ==
    IF \E i \in 1..Len(ts) : ts[i].kind = kind /\ ts[i].held
    THEN CHOOSE i \in 1..Len(ts) : ts[i].kind = kind /\ ts[i].held
    ELSE Null

hoverTimeout == HeldTimer(timers, "show")

cardHideTimeout == HeldTimer(timers, "hide")

\* clearTimeout(handle): a stale or null handle cancels nothing.
clearTimeout(ts, handle) ==
    IF handle = Null THEN ts
    ELSE SubSeq(ts, 1, handle - 1) \o SubSeq(ts, handle + 1, Len(ts))

\* variable = setTimeout(callback, 200): the timer joins the pending ones and
\* the variable of its class names it, and no longer the timer it named before.
setTimeout(ts, tm) ==
    Append([i \in 1..Len(ts) |->
               IF ts[i].kind = tm.kind THEN [ts[i] EXCEPT !.held = FALSE] ELSE ts[i]],
           tm)

CanSchedule(ts) == Len(ts) < MaxTimers

\* updateMarkerElement: a no-op for an id without a marker element.
updateMarkerElement(cls, id, action, className) ==
    IF id \notin DOMAIN cls THEN cls
    ELSE [cls EXCEPT ![id] = IF action = "add" THEN @ \cup {className}
                             ELSE @ \ {className}]

resetMarkerStates(cls) == [id \in DOMAIN cls |-> cls[id] \ MarkerMarks]

\* setActive without the reset and without dimming: only marks the new marker.
setActiveOnlyMarks(cls, merchantId) ==
    [id \in DOMAIN cls |->
        IF id = merchantId THEN cls[id] \cup {"marker-active"} ELSE cls[id]]

\* setActive's loop over Object.keys(markers), after its resetMarkerStates.
setActive(cls, merchantId) ==
    [id \in DOMAIN cls |->
        IF id = merchantId
        THEN ((cls[id] \ MarkerMarks) \cup {"marker-active"}) \ {"marker-out-of-focus"}
        ELSE ((cls[id] \ MarkerMarks) \cup {"marker-out-of-focus"}) \ {"marker-active"}]

\* App.setActiveItem's loop over the .merchant-item elements.
setActiveItem(cls, merchantId) ==
    [id \in DOMAIN cls |->
        IF id = merchantId
        THEN (cls[id] \ {"active", "out-of-focus"}) \cup {"active"}
        ELSE (cls[id] \ {"active", "out-of-focus"}) \cup {"out-of-focus"}]

resetListStates(cls) == [id \in DOMAIN cls |-> cls[id] \ {"active", "out-of-focus"}]

highlightListItem(cls, merchantId) ==
    [id \in DOMAIN cls |->
        IF id = merchantId THEN cls[id] \cup {"hover-from-map"}
        ELSE cls[id] \ {"hover-from-map"}]

unhighlightListItem(cls) == [id \in DOMAIN cls |-> cls[id] \ {"hover-from-map"}]

\* ---- card placement

cardW == 300

\* card.style.left / top never assigned.
NoStyle == [set |-> FALSE, left |-> 0, top |-> 0]

\* The style positionCard assigns; the numbers are the px values of the texts.
Style(l, t) == [set |-> TRUE, left |-> l, top |-> t]

\* positionCard with the two horizontal clamps in the other order: the left
\* inset is applied last.
positionCardLeftLast(h, x, y, rect) ==
    LET cardH == IF h # 0 THEN h ELSE 280
        left0 == x - cardW \div 2
        top0  == y - cardH - 28
        left1 == IF left0 + cardW > rect.width - 8 THEN rect.width - cardW - 8 ELSE left0
        left2 == IF left1 < 8 THEN 8 ELSE left1
        top1  == IF top0 < 8 THEN y + 28 ELSE top0
    IN Style(rect.left + left2, rect.top + top1)

\* positionCard clamping the top to the inset instead of flipping below.
positionCardClampTop(h, x, y, rect) ==
    LET cardH == IF h # 0 THEN h ELSE 280
        left0 == x - cardW \div 2
        top0  == y - cardH - 28
        left1 == IF left0 < 8 THEN 8 ELSE left0
        left2 == IF left1 + cardW > rect.width - 8 THEN rect.width - cardW - 8 ELSE left1
        top1  == IF top0 < 8 THEN 8 ELSE top0
    IN Style(rect.left + left2, rect.top + top1)

\* positionCard(card, x, y), h being card.offsetHeight and rect the container's
\* bounding rectangle: the three `if`s in the order of the code.
positionCard(h, x, y, rect) ==
    LET cardH == IF h # 0 THEN h ELSE 280
        left0 == x - cardW \div 2
        top0  == y - cardH - 28
        left1 == IF left0 < 8 THEN 8 ELSE left0
        left2 == IF left1 + cardW > rect.width - 8 THEN rect.width - cardW - 8 ELSE left1
        top1  == IF top0 < 8 THEN y + 28 ELSE top0
    IN Style(rect.left + left2, rect.top + top1)

\* map.latLngToContainerPoint(marker.getLatLng()) at the map's current view:
\* marker 1 sits in the top left corner, marker 2 in the middle, marker 3 at
\* the right edge, low enough for the card to fit above it.
latLngToContainerPoint(id) ==
    IF id = 1 THEN [x |-> 5, y |-> 5]
    ELSE IF id = 3 THEN [x |-> 795, y |-> 400]
    ELSE [x |-> 400, y |-> 300]

\* No positionCard call made yet.
NoPoint == [x |-> 0, y |-> 0]

\* The map container of the interaction model: 800 px wide, right of the
\* 320 px sidebar; the card is measured as not laid out.
PlaceIdle ==
    /\ anchor = NoPoint
    /\ mapRect = [left |-> 320, top |-> 0, width |-> 800]
    /\ offsetHeight = 0
    /\ cardStyle = NoStyle

\* ---- the page: App.init and the 60 s intervals

\* The text of #open-count before App.init wrote a count.
NoCount == -1

\* The elements of an array.
Range(q) == { q[i] : i \in 1..Len(q) }

\* Ids createMarker makes a marker for: it returns null without coordinates.
WithCoordinates(ms) == { i \in 1..Len(ms) : ms[i].coordinates }

\* markers[merchant.id] = { marker, status, popularity }
EntryOf(c) == [status |-> c.status, popularity |-> c.popularity]

\* createMarker over addMerchants: what markers[id] records.
createMarkerEntry(ms, day, t) ==
    [id \in WithCoordinates(ms) |-> EntryOf(getMarkerClasses(ms[id], day, t))]

\* createMarker over addMerchants: class="custom-marker ${classes.join(' ')}".
createMarkerClasses(ms, day, t) ==
    [id \in WithCoordinates(ms) |-> Range(getMarkerClasses(ms[id], day, t).classes)]

\* renderEventSections and updateListStatuses: the status of every list item.
updateListStatuses(ms, day, t) ==
    [id \in 1..Len(ms) |-> getOpenStatus(ms[id].hours, day, t)]

\* The classes refreshMarkerStates removes before it adds the new ones.
RefreshedClasses ==
    {"marker-open", "marker-closed", "marker-opening-soon", "marker-closing-soon",
     "pulse", "pulse-fast", "pulse-intense", "glow"}

\* refreshMarkerStates that assigns the element's whole class list.
refreshMarkerStatesReplaceAll(cls, merchantList, day, t) ==
    [id \in DOMAIN cls |->
        IF id \in 1..Len(merchantList)
        THEN Range(getMarkerClasses(merchantList[id], day, t).classes)
        ELSE cls[id]]

\* refreshMarkerStates(merchantList) over the elements' class lists cls;
\* a merchant without a marker element is skipped.
refreshMarkerStates(cls, merchantList, day, t) ==
    [id \in DOMAIN cls |->
        IF id \in 1..Len(merchantList)
        THEN (cls[id] \ RefreshedClasses)
                 \cup Range(getMarkerClasses(merchantList[id], day, t).classes)
        ELSE cls[id]]

\* What App.init leaves from the loaded list ms at the time (day, t).
Rendered(ms, day, t) ==
    /\ markers = WithCoordinates(ms)
    /\ markerEntry = createMarkerEntry(ms, day, t)
    /\ markerStatusCls = createMarkerClasses(ms, day, t)
    /\ itemStatus = updateListStatuses(ms, day, t)
    /\ openCount = countOpen(ms, day, t)

\* The data is loaded and nothing is rendered yet.
NothingRendered ==
    /\ markers = {}
    /\ activeMarkerId = Null
    /\ markerCls = << >>
    /\ cardVisible = FALSE
    /\ cardMerchant = Null
    /\ timers = << >>
    /\ activeMerchantId = Null
    /\ itemCls = << >>
    /\ modalOpen = FALSE
    /\ openCount = NoCount
    /\ markerEntry = << >>
    /\ markerStatusCls = << >>
    /\ itemStatus = << >>
    /\ cardStatus = NoResult
    /\ pointer = "present"

\* App.init after loadData: addMerchants, renderEventSections, updateOpenCount.
AppInit ==
    /\ openCount = NoCount
    /\ markers' = WithCoordinates(allMerchants)
    /\ markerEntry' = createMarkerEntry(allMerchants, dayOfWeek, currentMinutes)
    /\ markerStatusCls' = createMarkerClasses(allMerchants, dayOfWeek, currentMinutes)
    /\ markerCls' = [id \in WithCoordinates(allMerchants) |-> {}]
    /\ itemStatus' = updateListStatuses(allMerchants, dayOfWeek, currentMinutes)
    /\ itemCls' = [id \in 1..Len(allMerchants) |-> {}]
    /\ openCount' = countOpen(allMerchants, dayOfWeek, currentMinutes)
    /\ UNCHANGED <<allMerchants, cardStatus, activeMarkerId, cardVisible, cardMerchant,
                   timers, activeMerchantId, modalOpen, statusVars, envVars, placeVars>>

\* setInterval(updateOpenCount, 60000)
UpdateOpenCount ==
    /\ openCount # NoCount
    /\ openCount' = countOpen(allMerchants, dayOfWeek, currentMinutes)
    /\ UNCHANGED <<allMerchants, markerEntry, markerStatusCls, itemStatus, cardStatus,
                   mapVars, appVars, statusVars, envVars, placeVars>>

\* el.classList of every marker element: its interaction marks and its status
\* and pulse classes.
classList == [id \in DOMAIN markerStatusCls |-> markerCls[id] \cup markerStatusCls[id]]

\* The 60 s interval that calls refreshMarkerStates and updateListStatuses.
\* refreshMarkerStates works on each marker element's class list;
\* updateListStatuses writes the .merchant-status child of each list item.
RefreshInterval ==
    /\ openCount # NoCount
    /\ UNCHANGED <<allMerchants, openCount, markerEntry, cardStatus, markers,
                   activeMarkerId, cardVisible, cardMerchant, timers,
                   appVars, statusVars, envVars, placeVars>>
    /\ markerStatusCls' =
          [id \in DOMAIN markerStatusCls |->
              refreshMarkerStates(classList, allMerchants, dayOfWeek, currentMinutes)[id]
                  \ MarkerMarks]
    /\ markerCls' =
          [id \in DOMAIN markerCls |->
              refreshMarkerStates(classList, allMerchants, dayOfWeek, currentMinutes)[id]
                  \cap MarkerMarks]
    /\ itemStatus' = updateListStatuses(allMerchants, dayOfWeek, currentMinutes)

\* showCard filling #card-status from the status the list item was rendered with.
showCardStatusAtRender(id) == itemStatus[id]

\* showCard: const now = new Date(); status = Signals.getOpenStatus(merchant, now),
\* written to #card-status.
showCardStatus(id) == getOpenStatus(allMerchants[id].hours, dayOfWeek, currentMinutes)

\* Merchants of the interaction model: closed on Monday, with 20, 40, 60, ...
\* visits.  (The page over merchants of every status is SpecPage's.)
DemoMerchant(i, c) ==
    [hours |-> HoursOf(ClosedText), visits |-> 20 * i, coordinates |-> c]

\* After App.init: markers exist for the merchants that have coordinates
\* (here the first k of them), list items for all; nothing selected or hovered.
InteractionInit ==
    /\ markers \in { 1..k : k \in 0..NumMerchants }
    /\ activeMarkerId = Null
    /\ markerCls = [id \in markers |-> {}]
    /\ cardVisible = FALSE
    /\ cardMerchant = Null
    /\ timers = << >>
    /\ activeMerchantId = Null
    /\ itemCls = [id \in Merchants |-> {}]
    /\ modalOpen = FALSE
    /\ pointer = "present"

\* marker.on('mouseover')
MarkerMouseover(id) ==
    /\ id \in markers
    /\ LET cleared == clearTimeout(timers, cardHideTimeout) IN
        /\ CanSchedule(cleared)
        /\ timers' = setTimeout(cleared, ShowTimer(id))
    /\ UNCHANGED <<markers, activeMarkerId, markerCls, cardVisible, cardMerchant,
                   appVars, statusVars, envVars, placeVars, dataVars>>

\* The marker's mouseout listener: what it does to the page.
mouseout(id) ==
    /\ id \in markers
    /\ LET cleared == clearTimeout(timers, hoverTimeout) IN
        /\ CanSchedule(cleared)
        /\ timers' = setTimeout(cleared, HideTimer)
    /\ markerCls' = updateMarkerElement(markerCls, id, "remove", "marker-hover")
    /\ itemCls' = unhighlightListItem(itemCls)
    /\ UNCHANGED <<markers, activeMarkerId, cardVisible, cardMerchant,
                   activeMerchantId, modalOpen, statusVars, placeVars, dataVars>>

\* marker.on('mouseout')
MarkerMouseout(id) == mouseout(id) /\ UNCHANGED envVars

\* marker.on('click'): setActive, App.setActiveItem (which hides the card),
\* panTo, App.openModal.
MarkerClick(id) ==
    /\ id \in markers
    /\ activeMarkerId' = id
    /\ markerCls' = setActive(markerCls, id)
    /\ activeMerchantId' = id
    /\ itemCls' = setActiveItem(itemCls, id)
    /\ cardVisible' = FALSE
    /\ modalOpen' = TRUE
    /\ UNCHANGED <<markers, cardMerchant, timers, statusVars, envVars, placeVars, dataVars>>

\* The list click without its MapModule.setActive call.
ListClickListOnly(id) ==
    /\ id \in Merchants
    /\ activeMerchantId' = id
    /\ itemCls' = setActiveItem(itemCls, id)
    /\ cardVisible' = FALSE
    /\ modalOpen' = TRUE
    /\ UNCHANGED <<markers, activeMarkerId, markerCls, cardMerchant, timers, statusVars, envVars,
                   placeVars, dataVars>>

\* .merchant-item click: setActiveItem, panTo, MapModule.setActive, openModal.
ListClick(id) ==
    /\ id \in Merchants
    /\ activeMerchantId' = id
    /\ itemCls' = setActiveItem(itemCls, id)
    /\ cardVisible' = FALSE
    /\ activeMarkerId' = id
    /\ markerCls' = setActive(markerCls, id)
    /\ modalOpen' = TRUE
    /\ UNCHANGED <<markers, cardMerchant, timers, statusVars, envVars, placeVars, dataVars>>

\* .merchant-item mouseenter: bounceMarker and showCardForMerchant, only while
\* nothing is selected; showCardForMerchant returns early without a marker,
\* else clears the hide timer, calls showCard and adds the hover mark.
\* (bounceMarker's 'bouncing' class lasts one animation and no handler reads
\* it; it is not among the marks kept in markerCls.)
ListMouseenter(id) ==
    /\ id \in Merchants
    /\ activeMerchantId = Null
    /\ IF id \in markers
       THEN /\ timers' = clearTimeout(timers, cardHideTimeout)
            /\ cardVisible' = TRUE
            /\ cardMerchant' = id
            /\ anchor' = latLngToContainerPoint(id)
            /\ cardStyle' = positionCard(offsetHeight, latLngToContainerPoint(id).x,
                                         latLngToContainerPoint(id).y, mapRect)
            /\ cardStatus' = showCardStatus(id)
            /\ markerCls' = updateMarkerElement(markerCls, id, "add", "marker-hover")
            /\ UNCHANGED <<markers, activeMarkerId, appVars, statusVars, envVars, mapRect,
                           offsetHeight, allMerchants, openCount, markerEntry,
                           markerStatusCls, itemStatus>>
       ELSE UNCHANGED vars

\* MapModule.hideCardAndHover(merchantId): what it does to the page.
hideCardAndHover(id) ==
    /\ CanSchedule(timers)
    /\ timers' = setTimeout(timers, HideTimer)
    /\ markerCls' = IF id # 0
                    THEN updateMarkerElement(markerCls, id, "remove", "marker-hover")
                    ELSE markerCls
    /\ UNCHANGED <<markers, activeMarkerId, cardVisible, cardMerchant, appVars,
                   statusVars, placeVars, dataVars>>

\* .merchant-item mouseleave: hideCardAndHover, only while nothing is selected.
ListMouseleave(id) ==
    /\ id \in Merchants
    /\ activeMerchantId = Null
    /\ hideCardAndHover(id)
    /\ UNCHANGED envVars

\* card.onmouseenter, installed by showCard.
CardMouseenter ==
    /\ cardMerchant # Null
    /\ timers' = clearTimeout(timers, cardHideTimeout)
    /\ UNCHANGED <<markers, activeMarkerId, markerCls, cardVisible, cardMerchant,
                   appVars, statusVars, envVars, placeVars, dataVars>>

\* card.onmouseleave, installed by showCard.
CardMouseleave ==
    /\ cardMerchant # Null
    /\ CanSchedule(timers)
    /\ timers' = setTimeout(timers, HideTimer)
    /\ UNCHANGED <<markers, activeMarkerId, markerCls, cardVisible, cardMerchant,
                   appVars, statusVars, envVars, placeVars, dataVars>>

\* #card-btn-detail click, installed by showCard: hideCard, panTo, App.openModal.
CardDetailClick ==
    /\ cardMerchant # Null
    /\ cardVisible' = FALSE
    /\ modalOpen' = TRUE
    /\ UNCHANGED <<markers, activeMarkerId, markerCls, cardMerchant, timers,
                   activeMerchantId, itemCls, statusVars, envVars, placeVars, dataVars>>

\* map.on('click'): resetAllStates, App.closeModal.
MapClick ==
    /\ activeMarkerId' = Null
    /\ markerCls' = resetMarkerStates(markerCls)
    /\ cardVisible' = FALSE
    /\ activeMerchantId' = Null
    /\ itemCls' = resetListStates(itemCls)
    /\ modalOpen' = FALSE
    /\ UNCHANGED <<markers, cardMerchant, timers, statusVars, envVars, placeVars, dataVars>>

\* App.closeModal: the close and back buttons, an overlay click, the Escape key.
CloseModal ==
    /\ modalOpen
    /\ modalOpen' = FALSE
    /\ UNCHANGED <<mapVars, activeMerchantId, itemCls, statusVars, envVars, placeVars, dataVars>>

\* The oldest pending timer expires (every delay is 200 ms, so timers expire in
\* the order they were set): a marker's show callback (showCard, which
\* positions the card, highlightListItem, the hover mark), or hideCard.
TimerFires ==
    /\ timers # << >>
    /\ LET tm == Head(timers) IN
        /\ timers' = Tail(timers)
        /\ IF tm.kind = "show"
           THEN /\ cardVisible' = TRUE
                /\ cardMerchant' = tm.m
                /\ anchor' = latLngToContainerPoint(tm.m)
                /\ cardStyle' = positionCard(offsetHeight, latLngToContainerPoint(tm.m).x,
                                             latLngToContainerPoint(tm.m).y, mapRect)
                /\ cardStatus' = showCardStatus(tm.m)
                /\ itemCls' = highlightListItem(itemCls, tm.m)
                /\ markerCls' = updateMarkerElement(markerCls, tm.m, "add", "marker-hover")
           ELSE /\ cardVisible' = FALSE
                /\ UNCHANGED <<cardMerchant, itemCls, markerCls, anchor, cardStyle,
                               cardStatus>>
    /\ UNCHANGED <<markers, activeMarkerId, activeMerchantId, modalOpen, statusVars, envVars,
                   mapRect, offsetHeight, allMerchants, openCount, markerEntry,
                   markerStatusCls, itemStatus>>

\* No getOpenStatus call of the status engine's own checks is in progress;
\* the clock reads Monday 12:45.
StatusIdle ==
    /\ authored = Author("ranges", LunchAndDinner)
    /\ hours = HoursOf(LunchAndDinnerText)
    /\ dayOfWeek = Monday
    /\ currentMinutes = 765
    /\ result = NoResult
    /\ previous = NoResult

Init ==
    /\ InteractionInit
    /\ StatusIdle
    /\ PlaceIdle
    /\ allMerchants = [i \in Merchants |-> DemoMerchant(i, i \in markers)]
    /\ Rendered(allMerchants, dayOfWeek, currentMinutes)
    /\ cardStatus = NoResult

Next ==
    \/ \E id \in Merchants :
         \/ MarkerMouseover(id)
         \/ MarkerMouseout(id)
         \/ MarkerClick(id)
         \/ ListClick(id)
         \/ ListMouseenter(id)
         \/ ListMouseleave(id)
    \/ CardMouseenter
    \/ CardMouseleave
    \/ CardDetailClick
    \/ MapClick
    \/ CloseModal
    \/ TimerFires

Spec == Init /\ [][Next]_vars

\* The user's last event is the pointer leaving a marker while the card is shown.
MarkerMouseoutLast(id) ==
    /\ pointer = "present"
    /\ cardVisible
    /\ mouseout(id)
    /\ pointer' = "gone"

\* The user's last event is the pointer leaving a list item while the card is
\* shown; the listener calls hideCardAndHover only while nothing is selected.
ListMouseleaveLast(id) ==
    /\ pointer = "present"
    /\ cardVisible
    /\ id \in Merchants
    /\ IF activeMerchantId = Null
       THEN hideCardAndHover(id)
       ELSE UNCHANGED <<mapVars, appVars, statusVars, placeVars, dataVars>>
    /\ pointer' = "gone"

\* The page while the user is there, then left to its timers: after the last
\* event only timers fire, and every pending timer does fire.
NextLeave ==
    \/ \E id \in Merchants :
         \/ pointer = "present" /\ MarkerMouseover(id)
         \/ pointer = "present" /\ MarkerMouseout(id)
         \/ pointer = "present" /\ MarkerClick(id)
         \/ pointer = "present" /\ ListClick(id)
         \/ pointer = "present" /\ ListMouseenter(id)
         \/ pointer = "present" /\ ListMouseleave(id)
         \/ MarkerMouseoutLast(id)
         \/ ListMouseleaveLast(id)
    \/ pointer = "present" /\ CardMouseenter
    \/ pointer = "present" /\ CardMouseleave
    \/ pointer = "present" /\ CardDetailClick
    \/ pointer = "present" /\ MapClick
    \/ pointer = "present" /\ CloseModal
    \/ TimerFires

SpecLeave == Init /\ [][NextLeave]_vars /\ WF_vars(TimerFires)

\* The status engine alone: every generated day and minute, one call each.
InitStatus ==
    /\ StatusInit
    /\ NothingRendered
    /\ allMerchants = << >>
    /\ PlaceIdle

NextStatus == Classify /\ UNCHANGED <<mapVars, appVars, placeVars, dataVars, envVars>>

SpecStatus == InitStatus /\ [][NextStatus]_vars

\* The status engine asked twice: every single range, the lunch-and-dinner day
\* and the malformed texts, near the range ends.
InitAgain ==
    /\ result = NoResult
    /\ previous = NoResult
    /\ dayOfWeek = Monday
    /\ \/ \E rs \in { << r >> : r \in AuthoredRanges } \cup { LunchAndDinner } :
            /\ authored = Author("ranges", rs)
            /\ hours = HoursOf(IF rs = LunchAndDinner THEN LunchAndDinnerText
                               ELSE FmtDay(rs))
            /\ currentMinutes \in NearMinutes
       \/ \E text \in MalformedTexts \cup { ClosedText, << >> } :
            /\ authored = Author(IF text = ClosedText THEN "closed"
                                 ELSE IF text = << >> THEN "empty" ELSE "malformed", << >>)
            /\ hours = HoursOf(text)
            /\ currentMinutes \in SampleMinutes
    /\ NothingRendered
    /\ allMerchants = << >>
    /\ PlaceIdle

NextAgain ==
    \/ Classify /\ UNCHANGED <<mapVars, appVars, placeVars, dataVars, envVars>>
    \/ Reclassify /\ UNCHANGED <<mapVars, appVars, placeVars, dataVars, envVars>>

SpecAgain == InitAgain /\ [][NextAgain]_vars

\* ---- positionCard alone: one call for every generated anchor and container

\* Anchors: left of, on and right of the container, and one pixel around each
\* value where a clamp of a generated container width starts to apply.
AnchorXs == {-50, 0, 5, 155, 157, 158, 159, 400, 641, 642, 643, 795, 900}

\* One pixel around y = cardH + 36, where the card stops fitting above.
AnchorYs == {-20, 5, 155, 156, 157, 315, 316, 317, 500}

\* 316 is the narrowest container the card fits in between the insets.
ContainerWidths == {300, 315, 316, 317, 800}

\* card.offsetHeight: 0 before the first layout, else the measured height.
CardHeights == {0, 120, 280}

InitPlace ==
    /\ anchor \in [x : AnchorXs, y : AnchorYs]
    /\ mapRect \in [left : {0, 320}, top : {0, 64}, width : ContainerWidths]
    /\ offsetHeight \in CardHeights
    /\ cardStyle = NoStyle
    /\ StatusIdle
    /\ NothingRendered
    /\ allMerchants = << >>

PositionCard ==
    /\ cardStyle = NoStyle
    /\ cardStyle' = positionCard(offsetHeight, anchor.x, anchor.y, mapRect)
    /\ UNCHANGED <<anchor, mapRect, offsetHeight, statusVars, envVars, mapVars, appVars, dataVars>>

NextPlace == PositionCard

SpecPlace == InitPlace /\ [][NextPlace]_vars

\* ---- the page over generated merchant lists: App.init, then the clock and
\* the two 60 s intervals

\* Most merchants a generated list holds.
MaxList == 2

\* Largest visit count of the generated one-merchant lists.
MaxVisits == 60

Merchant(text, v, c) == [hours |-> HoursOf(text), visits |-> v, coordinates |-> c]

\* Merchants of the longer lists: the lunch-and-dinner day, popular and very
\* popular, a popular afternoon merchant, a very popular one closed all
\* Monday, and one without coordinates, which gets no marker.
MerchantSamples ==
    { Merchant(LunchAndDinnerText, v, TRUE) : v \in {21, 41} }
        \cup { Merchant(AfternoonText, 21, TRUE),
               Merchant(ClosedText, 41, TRUE),
               Merchant(LunchAndDinnerText, 41, FALSE) }

MerchantLists ==
    SeqsUpTo(MerchantSamples, MaxList)
        \cup { << Merchant(LunchAndDinnerText, v, TRUE) >> : v \in 0..MaxVisits }

\* Monday 10:00, 12:45, 13:00, 16:40: between them the generated days take
\* every status.
PageTimes == {600, 765, 780, 1000}

InitPage ==
    /\ allMerchants \in MerchantLists
    /\ dayOfWeek = Monday
    /\ currentMinutes \in PageTimes
    /\ authored = Author("ranges", LunchAndDinner)
    /\ hours = HoursOf(LunchAndDinnerText)
    /\ result = NoResult
    /\ previous = NoResult
    /\ NothingRendered
    /\ PlaceIdle

\* The wall clock moves on.
Tick ==
    /\ \E t \in PageTimes : t > currentMinutes /\ currentMinutes' = t
    /\ UNCHANGED <<hours, authored, dayOfWeek, result, previous, mapVars, appVars, placeVars, envVars,
                   dataVars>>

NextPage ==
    \/ AppInit
    \/ Tick
    \/ UpdateOpenCount
    \/ RefreshInterval

SpecPage == InitPage /\ [][NextPage]_vars

\* Hovering and selecting while the clock moves on: two merchants with
\* markers, one open from 17:00 and one from 13:00, the others closed on
\* Monday and without coordinates; rendered on Monday at 13:00.
CardMerchant(i) ==
    Merchant(IF i = 1 THEN EveningText ELSE IF i = 2 THEN AfternoonText ELSE ClosedText,
             20 * i, i <= 2)

InitCard ==
    /\ allMerchants = [i \in Merchants |-> CardMerchant(i)]
    /\ authored = Author("ranges", LunchAndDinner)
    /\ hours = HoursOf(LunchAndDinnerText)
    /\ dayOfWeek = Monday
    /\ currentMinutes = 780
    /\ result = NoResult
    /\ previous = NoResult
    /\ Rendered(allMerchants, dayOfWeek, currentMinutes)
    /\ activeMarkerId = Null
    /\ markerCls = [id \in markers |-> {}]
    /\ cardVisible = FALSE
    /\ cardMerchant = Null
    /\ timers = << >>
    /\ activeMerchantId = Null
    /\ itemCls = [id \in 1..Len(allMerchants) |-> {}]
    /\ modalOpen = FALSE
    /\ cardStatus = NoResult
    /\ pointer = "present"
    /\ PlaceIdle

NextCard ==
    \/ \E id \in Merchants :
         \/ MarkerMouseover(id)
         \/ MarkerMouseout(id)
         \/ MarkerClick(id)
         \/ ListMouseenter(id)
         \/ ListMouseleave(id)
    \/ MapClick
    \/ TimerFires
    \/ Tick
    \/ RefreshInterval

SpecCard == InitCard /\ [][NextCard]_vars

---------------------------------------------------------------------------
(* Properties of the status engine, checked under SpecStatus.  They are    *)
(* stated over the authored ranges, not over what the code parsed.         *)

Classified == result # NoResult

WellFormedDay == Classified /\ authored.kind = "ranges"

SingleRange == WellFormedDay /\ Len(authored.ranges) = 1

Contains(r, t) == r.open <= t /\ t < r.close

ContainingRanges == { i \in 1..Len(authored.ranges) :
                        Contains(authored.ranges[i], currentMinutes) }

SoonRanges == { i \in 1..Len(authored.ranges) :
                  LET d == authored.ranges[i].open - currentMinutes IN d > 0 /\ d <= 30 }

First(S) == CHOOSE i \in S : \A j \in S : i <= j

IsClosingSoonLabel(n) ==
    /\ result.prefix = "Tanca en " /\ result.suffix = " min"
    /\ result.value # << >> /\ DecimalValue(result.value) = n

IsOpeningSoonLabel(n) ==
    /\ result.prefix = "Obre en " /\ result.suffix = " min"
    /\ result.value # << >> /\ DecimalValue(result.value) = n

\* The label names the close time as H:MM: hour without leading zero, minute
\* on two digits.
IsOpenLabel(close) ==
    /\ result.prefix = "Obert · Tanca a les " /\ result.suffix = "h"
    /\ LET parts == Split(result.value, ":") IN
        /\ Len(parts) = 2
        /\ Len(parts[2]) = 2
        /\ parts[1] # << >> /\ (Len(parts[1]) > 1 => parts[1][1] # "0")
        /\ DecimalValue(parts[1]) * 60 + DecimalValue(parts[2]) = close

\* C5: for a day with the single range [o,c) and every minute t, the status is
\* 'open' iff o <= t < c and c - t > 30, 'closing-soon' iff o <= t < c and
\* c - t <= 30, and the closing-soon label's number is c - t.
C5_SingleRangeOpenOrClosingSoon ==
    SingleRange =>
        LET r == authored.ranges[1]
            t == currentMinutes
        IN /\ (result.status = "open") <=> (Contains(r, t) /\ r.close - t > 30)
           /\ (result.status = "closing-soon") <=> (Contains(r, t) /\ r.close - t <= 30)
           /\ result.status = "closing-soon" => IsClosingSoonLabel(r.close - t)

\* Exactly 30 minutes before the close of a single range: closing-soon, "Tanca en 30 min".
C5_Witness ==
    /\ SingleRange
    /\ authored.ranges[1].close - currentMinutes = 30
    /\ result.status = "closing-soon"
    /\ result.value = << "3", "0" >>

\* C6: for a day with the single range [o,c), at t = c the status is neither
\* 'open' nor 'closing-soon', and it is 'closed' (the range being o <= c).
C6_CloseMinuteIsClosed ==
    (SingleRange /\ currentMinutes = authored.ranges[1].close) =>
        /\ result.status \notin {"open", "closing-soon"}
        /\ authored.ranges[1].open <= authored.ranges[1].close => result = Tancat

C6_Witness ==
    /\ SingleRange
    /\ authored.ranges[1].open < authored.ranges[1].close
    /\ currentMinutes = authored.ranges[1].close
    /\ result = Tancat

\* The parts of C7 that hold as stated: 'opening-soon' iff no range contains
\* the minute and some range opens within (0, 30] minutes, with the label's
\* number taken from the first such range; 'closed' / "Tancat" otherwise.
OpeningSoonRule ==
    /\ (result.status = "opening-soon") <=> (ContainingRanges = {} /\ SoonRanges # {})
    /\ result.status = "opening-soon" =>
          IsOpeningSoonLabel(authored.ranges[First(SoonRanges)].open - currentMinutes)
    /\ (ContainingRanges = {} /\ SoonRanges = {}) => result = Tancat

OpensNow == { i \in 1..Len(authored.ranges) : authored.ranges[i].open = currentMinutes }

\* C7 as stated: the opening-soon rule, and a minute equal to the open of a
\* range (with open < close) has status 'open'.
C7_AsStated ==
    WellFormedDay =>
        /\ OpeningSoonRule
        /\ (\E i \in OpensNow : authored.ranges[i].open < authored.ranges[i].close)
              => result.status = "open"

\* C7, amended: the opening-soon rule, and a minute equal to the open of a
\* range with open < close has status 'open' or 'closing-soon', never
\* 'opening-soon'.
C7_OpeningSoon ==
    WellFormedDay =>
        /\ OpeningSoonRule
        /\ (\E i \in OpensNow : authored.ranges[i].open < authored.ranges[i].close)
              => result.status \in {"open", "closing-soon"}

\* Two ranges opening within 30 minutes, the later one listed first: its
\* distance is the one in the label.
C7_Witness ==
    /\ WellFormedDay
    /\ SoonRanges = {1, 2}
    /\ authored.ranges[1].open > authored.ranges[2].open
    /\ result.status = "opening-soon"
    /\ IsOpeningSoonLabel(authored.ranges[1].open - currentMinutes)

\* C8: with several ranges in any order, possibly overlapping, the status is
\* 'open' or 'closing-soon' iff some range contains the minute, and status and
\* label are those of the first listed range that contains it.
C8_FirstContainingRangeWins ==
    WellFormedDay =>
        /\ (result.status \in {"open", "closing-soon"}) <=> (ContainingRanges # {})
        /\ ContainingRanges # {} =>
              LET r == authored.ranges[First(ContainingRanges)] IN
              IF r.close - currentMinutes <= 30
              THEN result.status = "closing-soon" /\ IsClosingSoonLabel(r.close - currentMinutes)
              ELSE result.status = "open" /\ IsOpenLabel(r.close)

\* Only the second listed range contains the minute, and it starts before the
\* first listed one.
C8_Witness ==
    /\ WellFormedDay
    /\ ContainingRanges = {2}
    /\ authored.ranges[2].open < authored.ranges[1].open
    /\ authored.ranges[1].open < authored.ranges[1].close
    /\ result.status = "open"
    /\ IsOpenLabel(authored.ranges[2].close)

Scenario ==
    /\ Classified
    /\ hours = HoursOf(LunchAndDinnerText)
    /\ dayOfWeek = Monday

ScenarioTail ==
    /\ currentMinutes = 770 =>
          result = StatusResult("closing-soon", "Tanca en ", << "1", "0" >>, " min")
    /\ currentMinutes = 1000 =>
          result = StatusResult("opening-soon", "Obre en ", << "2", "0" >>, " min")
    /\ currentMinutes = 1260 => result.status = "closed"

\* C9 as stated: Monday "09:00-13:00,17:00-20:00" is 'open' until 13:00 at
\* 12:45, "Tanca en 10 min" at 12:50, "Obre en 20 min" at 16:40, closed at 21:00.
C9_AsStated ==
    Scenario =>
        /\ currentMinutes = 765 =>
              result.status = "open" /\ result.value = << "1", "3", ":", "0", "0" >>
        /\ ScenarioTail

\* C9, amended: at 12:45 the status is 'closing-soon', "Tanca en 15 min"; it is
\* 'open' with the 13:00 close time while more than 30 minutes remain (12:29).
C9_Scenario ==
    Scenario =>
        /\ currentMinutes = 765 =>
              result = StatusResult("closing-soon", "Tanca en ", << "1", "5" >>, " min")
        /\ currentMinutes = 749 =>
              result = StatusResult("open", "Obert · Tanca a les ",
                                    << "1", "3", ":", "0", "0" >>, "h")
        /\ ScenarioTail

C9_Witness ==
    /\ Scenario
    /\ currentMinutes = 765
    /\ result.status = "closing-soon"

\* C10: a day whose text is malformed, or whose key is missing, classifies as
\* 'closed' and the call does not throw.
C10_MalformedDayIsClosed ==
    (Classified /\ authored.kind \in {"malformed", "missing-key"}) => result = Tancat

\* A range of zero length, or written as crossing midnight.
Degenerate(r) == r.open >= r.close

\* C21: a day all of whose ranges are degenerate (open = close, or open >
\* close) classifies as neither 'open' nor 'closing-soon' at any minute, and
\* the call does not throw.
C21_DegenerateRangeNeverOpen ==
    (WellFormedDay /\ \A i \in 1..Len(authored.ranges) : Degenerate(authored.ranges[i])) =>
        /\ result.status \notin {"open", "closing-soon"}
        /\ result # Threw

\* A single range written across midnight, at a minute after its opening.
C21_Witness ==
    /\ SingleRange
    /\ authored.ranges[1].open > authored.ranges[1].close
    /\ currentMinutes > authored.ranges[1].open
    /\ result = Tancat

---------------------------------------------------------------------------
(* Properties of the interaction, checked under Spec.                      *)

Selected == activeMarkerId # Null \/ activeMerchantId # Null

ShowTimers(ts) == { i \in 1..Len(ts) : ts[i].kind = "show" }

ShowTimersFor(ts, id) == { i \in 1..Len(ts) : ts[i].kind = "show" /\ ts[i].m = id }

\* C1: among the markers, and among the list items, at most one carries the
\* active mark, and when one does every other one carries out-of-focus.
C1_SelectionInvariant ==
    /\ \A a \in markers : "marker-active" \in markerCls[a] =>
          \A b \in markers \ {a} :
              /\ "marker-active" \notin markerCls[b]
              /\ "marker-out-of-focus" \in markerCls[b]
    /\ \A a \in Merchants : "active" \in itemCls[a] =>
          \A b \in Merchants \ {a} :
              /\ "active" \notin itemCls[b]
              /\ "out-of-focus" \in itemCls[b]

\* A second selection, made while another marker was hovered: marker 2 and
\* item 2 are active, marker 1 is dimmed and still shows its hover mark.
C1_Witness ==
    /\ {1, 2} \subseteq markers
    /\ activeMarkerId = 2
    /\ "marker-active" \in markerCls[2]
    /\ "active" \in itemCls[2]
    /\ markerCls[1] = {"marker-out-of-focus", "marker-hover"}
    /\ "out-of-focus" \in itemCls[1]

\* C2: while an entity is selected, no step schedules a show timer or makes
\* the card visible.
C2_NoHoverCardWhileSelected ==
    [][Selected =>
          /\ Cardinality(ShowTimers(timers')) <= Cardinality(ShowTimers(timers))
          /\ cardVisible' => cardVisible]_vars

\* C3: a select (marker click or list-item click) leaves the card hidden and
\* no show timer pending, so that no show-card scheduled before the select
\* fires after it.
C3_SelectCancelsShowTimers ==
    [][(\E id \in Merchants : MarkerClick(id) \/ ListClick(id)) =>
          /\ ~cardVisible'
          /\ ShowTimers(timers') = {}]_vars

\* C4: when the pointer leaves marker A with one show timer for A pending
\* (one hover-enter(A) whose delay has not elapsed), whatever other events came
\* in between, no show timer for A stays pending: no show-card for A follows.
C4_LeaveCancelsShow ==
    [][\A id \in Merchants :
          (MarkerMouseout(id) /\ Cardinality(ShowTimersFor(timers, id)) = 1)
              => ShowTimersFor(timers', id) = {}]_vars



\* C13: a map background click (deselect-all) leaves both active ids cleared,
\* no marker with an active, out-of-focus or hover mark, no list item with an
\* active, out-of-focus or hover-from-map mark, and the card hidden.
C13_DeselectAllNeutral ==
    [][MapClick =>
          /\ activeMarkerId' = Null
          /\ activeMerchantId' = Null
          /\ \A id \in markers : markerCls'[id] \cap MarkerMarks = {}
          /\ \A id \in Merchants : itemCls'[id] \cap ItemMarks = {}
          /\ ~cardVisible']_vars


HideTimers(ts) == { i \in 1..Len(ts) : ts[i].kind = "hide" }

\* C17: a mouseover of marker B while a show timer of another marker A is
\* pending leaves no show timer of A pending, so that no show-card for A fires.
C17_EnterCancelsOtherShow ==
    [][\A a, b \in Merchants :
          (a # b /\ MarkerMouseover(b) /\ ShowTimersFor(timers, a) # {})
              => ShowTimersFor(timers', a) = {}]_vars

\* C18: once the pointer enters the card or a marker, no hide timer is left
\* pending, whichever leave events scheduled the hides, so that no hide-card
\* fires while the pointer is there.
C18_EnterCancelsEveryHide ==
    [][(CardMouseenter \/ \E id \in Merchants : MarkerMouseover(id))
          => HideTimers(timers') = {}]_vars

\* C19: closing the detail view clears both active ids and leaves no marker
\* and no list item active or out-of-focus, so that list hover previews, which
\* need a null active id, work again.
C19_CloseModalDeselects ==
    [][CloseModal =>
          /\ activeMarkerId' = Null
          /\ activeMerchantId' = Null
          /\ \A id \in markers :
                markerCls'[id] \cap {"marker-active", "marker-out-of-focus"} = {}
          /\ \A id \in Merchants : itemCls'[id] \cap {"active", "out-of-focus"} = {}]_vars

\* C20: a list-item mouseenter, mouseleave or click for a merchant without a
\* marker leaves the active ids, the marks of every marker and of every other
\* list item, the card visibility and the pending timers as they were.
C20_MissingMarkerIsNoOp ==
    [][\A id \in Merchants \ markers :
          (ListMouseenter(id) \/ ListMouseleave(id) \/ ListClick(id)) =>
              /\ activeMarkerId' = activeMarkerId
              /\ activeMerchantId' = activeMerchantId
              /\ markerCls' = markerCls
              /\ \A o \in Merchants \ {id} : itemCls'[o] = itemCls[o]
              /\ cardVisible' = cardVisible
              /\ timers' = timers]_vars

\* C25: at every instant at most one show timer and at most one hide timer
\* are pending, and every pending timer is the one hoverTimeout or
\* cardHideTimeout names, so that it can still be cancelled.
C25_OneTimerPerClass ==
    /\ Cardinality(ShowTimers(timers)) <= 1
    /\ Cardinality(HideTimers(timers)) <= 1
    /\ \A i \in 1..Len(timers) : timers[i].held

\* C27: if the pointer leaves a marker or list item while the card is shown
\* and no further pointer or click event occurs, then, the pending timers
\* having fired, the card is hidden and stays hidden.  Checked under SpecLeave.
C27_HideAfterLeave == (pointer = "gone") ~> [](~cardVisible)

\* C24: after any sequence of marker clicks, list-item clicks, card detail
\* clicks, modal closes and map clicks (and hovers and timers between them),
\* MapModule's activeMarkerId equals App's activeMerchantId.
C24_ActiveIdsAgree == activeMarkerId = activeMerchantId

\* A merchant selected from the list stays selected in both modules once its
\* modal is closed.
C24_Witness ==
    /\ activeMerchantId # Null
    /\ activeMarkerId = activeMerchantId
    /\ "active" \in itemCls[activeMerchantId]
    /\ ~modalOpen

---------------------------------------------------------------------------
(* Properties of the card placement, checked under SpecPlace.  Left and    *)
(* top are relative to the container: the style minus the container's      *)
(* own left and top.                                                       *)

Placed == cardStyle.set

PlacedLeft == cardStyle.left - mapRect.left

PlacedTop == cardStyle.top - mapRect.top

\* The height positionCard works with: the measured one, 280 when it is 0.
UsedHeight == IF offsetHeight = 0 THEN 280 ELSE offsetHeight

\* The example: anchor (5, 5), a 300 px wide container, a 300 x 280 card.
PlacementExample ==
    /\ Placed
    /\ anchor = [x |-> 5, y |-> 5]
    /\ mapRect.width = 300
    /\ UsedHeight = 280

\* C11 as stated: for the example, left = 8 and top = y + 28 = 33.
C11_AsStated ==
    PlacementExample => PlacedLeft = 8 /\ PlacedTop = 33

\* C11, amended: for the example, left = 300 - 300 - 8 = -8 (the right clamp is
\* applied after the left one) and top = y + 28 = 33 (flipped below).
C11_CardPlacementExample ==
    PlacementExample => PlacedLeft = -8 /\ PlacedTop = 33

C11_Witness ==
    /\ PlacementExample
    /\ mapRect.left = 320
    /\ cardStyle = Style(312, 33 + mapRect.top)

LeftCrosses == anchor.x - 150 < 8

RightCrosses == anchor.x - 150 + 300 > mapRect.width - 8

\* The vertical rule of C12: above the anchor, or below it exactly when the
\* above placement would cross the top inset; no other value.
TopRule ==
    PlacedTop = IF anchor.y - UsedHeight - 28 < 8
                THEN anchor.y + 28
                ELSE anchor.y - UsedHeight - 28

\* With a container of at least 316 px the card lies between the insets.
InsideInsets ==
    mapRect.width >= 316 => 8 <= PlacedLeft /\ PlacedLeft + 300 <= mapRect.width - 8

\* C12 as stated: the vertical rule; left is x - 150 when neither edge would
\* cross its inset, 8 when only the left edge would, W - 308 when only the
\* right edge would; inside the insets whenever W >= 316.
C12_AsStated ==
    Placed =>
        /\ TopRule
        /\ (~LeftCrosses /\ ~RightCrosses) => PlacedLeft = anchor.x - 150
        /\ (LeftCrosses /\ ~RightCrosses) => PlacedLeft = 8
        /\ (RightCrosses /\ ~LeftCrosses) => PlacedLeft = mapRect.width - 308
        /\ InsideInsets

\* C12, amended: the vertical rule; for W >= 316 left is 8 when the left edge
\* would cross, W - 308 when the right edge would, x - 150 otherwise, and the
\* card lies between the insets; for W < 316 left is W - 308 whatever x is.
C12_Placement ==
    Placed =>
        /\ TopRule
        /\ mapRect.width >= 316 =>
              PlacedLeft = IF LeftCrosses THEN 8
                           ELSE IF RightCrosses THEN mapRect.width - 308
                           ELSE anchor.x - 150
        /\ mapRect.width < 316 => PlacedLeft = mapRect.width - 308
        /\ InsideInsets

\* A never measured card at the right edge of an 800 px container, too high
\* up for the card to fit above: right clamp and flip below.
C12_Witness ==
    /\ Placed
    /\ offsetHeight = 0
    /\ anchor = [x |-> 795, y |-> 315]
    /\ mapRect.width = 800
    /\ PlacedLeft = 492
    /\ PlacedTop = 343


---------------------------------------------------------------------------
(* Properties of the counts and marker classes, checked under SpecPage.    *)

OpenNow == { i \in 1..Len(allMerchants) :
               getOpenStatus(allMerchants[i].hours, dayOfWeek, currentMinutes).status
                   \in {"open", "closing-soon"} }

\* C14: the count App.init and the 60 s interval get from countOpen is the
\* number of merchants of the list whose status at that time is 'open' or
\* 'closing-soon'; for the empty list it is 0.
C14_CountOpen ==
    [][(AppInit \/ UpdateOpenCount) => openCount' = Cardinality(OpenNow)]_vars

\* Two merchants at 12:45, one closing soon and one opening soon: the count is 1.
C14_Witness ==
    /\ Len(allMerchants) = 2
    /\ itemStatus = updateListStatuses(allMerchants, dayOfWeek, currentMinutes)
    /\ itemStatus[1].status = "opening-soon"
    /\ itemStatus[2].status = "closing-soon"
    /\ openCount = 1

StatusClasses ==
    {"marker-open", "marker-closed", "marker-opening-soon", "marker-closing-soon"}

PulseClasses == {"pulse", "pulse-fast", "pulse-intense", "glow"}

\* The pulse classes of a visit count, for a merchant that is not closed.
PulseOf(v) ==
    IF v >= 41 THEN {"pulse-intense", "glow"}
    ELSE IF v >= 21 THEN {"pulse-fast"}
    ELSE {"pulse"}

\* A marker's classes are one status class and, unless that is marker-closed,
\* the pulse classes of the merchant's visit count; marker-closed goes alone.
ClassesMatch(id) ==
    LET c == markerStatusCls[id]
        st == c \cap StatusClasses
    IN /\ Cardinality(st) = 1
       /\ c \ st = IF st = {"marker-closed"} THEN {}
                   ELSE PulseOf(allMerchants[id].visits)

\* The status class of the merchant's status now.
CurrentClass(id) ==
    StatusClass(getOpenStatus(allMerchants[id].hours, dayOfWeek, currentMinutes).status)

AllClassesMatch == \A id \in markers : ClassesMatch(id)

\* C15: after every step every marker carries exactly one status class; it
\* carries pulse classes only when that status is open, closing-soon or
\* opening-soon, and then exactly those of its popularity; after
\* refreshMarkerStates (and after createMarker) the status class is the one of
\* the status at the time of the call.
C15_MarkerClasses ==
    [][/\ AllClassesMatch'
       /\ (RefreshInterval \/ AppInit) =>
              \A id \in markers' : CurrentClass(id) \in markerStatusCls'[id]]_vars

\* A very popular merchant whose marker was created while it was closing soon
\* and refreshed once it had closed: marker-closed, no pulse, no glow.
C15_Witness ==
    /\ 1 \in markers
    /\ allMerchants[1].visits = 41
    /\ markerEntry[1].status.status = "closing-soon"
    /\ currentMinutes = 780
    /\ markerStatusCls[1] = {"marker-closed"}

\* C16: the popularity recorded for a marker is normal up to 20 visits,
\* popular from 21 to 40 and very-popular from 41 on.
C16_PopularityThresholds ==
    \A id \in markers :
        LET v == allMerchants[id].visits
            level == markerEntry[id].popularity.level
        IN /\ v <= 20 => level = "normal"
           /\ (21 <= v /\ v <= 40) => level = "popular"
           /\ v >= 41 => level = "very-popular"

\* 40 visits: still popular.
C16_Witness ==
    /\ 1 \in markers
    /\ allMerchants[1].visits = 40
    /\ markerEntry[1].popularity.level = "popular"


---------------------------------------------------------------------------
(* Properties of the card's status and of the refresh, checked under       *)
(* SpecCard.                                                               *)

\* A step that shows the card: a list hover of a merchant with a marker, or a
\* marker's show timer firing.
ShowStep ==
    \/ \E id \in markers : ListMouseenter(id)
    \/ TimerFires /\ Head(timers).kind = "show"

\* C22: whenever the card becomes shown for a merchant, by a list hover or a
\* show timer, the status and label in the card are getOpenStatus of that
\* merchant at the clock value of the show step.
C22_CardStatusIsFresh ==
    [][ShowStep =>
          /\ cardVisible'
          /\ \A id \in markers :
                cardMerchant' = id =>
                    cardStatus' = getOpenStatus(allMerchants[id].hours, dayOfWeek,
                                                currentMinutes)]_vars

\* The card shows 'opening-soon' for a merchant whose list item and marker
\* were rendered 'closed' at an earlier time.
C22_Witness ==
    /\ cardVisible
    /\ cardMerchant = 1
    /\ currentMinutes = 1000
    /\ markerEntry[1].status.status = "closed"
    /\ itemStatus[1].status = "closed"
    /\ cardStatus.status = "opening-soon"
    /\ cardStatus.value = << "2", "0" >>

\* C26: the 60 s refresh (refreshMarkerStates, updateListStatuses) leaves the
\* active ids, every marker's and list item's active / out-of-focus / hover
\* marks, the card's visibility and merchant, and the pending timers unchanged.
C26_RefreshFrame ==
    [][RefreshInterval =>
          UNCHANGED <<activeMarkerId, activeMerchantId, markerCls, itemCls,
                      cardVisible, cardMerchant, timers, modalOpen>>]_vars

\* The refresh has moved marker 1 from 'closed' to 'opening-soon' while it
\* was selected, marker 2 out of focus and a timer pending.
C26_Witness ==
    /\ markerEntry[1].status.status = "closed"
    /\ "marker-opening-soon" \in markerStatusCls[1]
    /\ activeMarkerId = 1
    /\ "marker-active" \in markerCls[1]
    /\ "marker-out-of-focus" \in markerCls[2]
    /\ "active" \in itemCls[1]
    /\ timers # << >>

=======================================================================
